---- MODULE Spec2Model ----
(***************************************************************************)
(* Model of coffea.nanoevents.transforms: the operand stack of the         *)
(* transform engine and the operations registered on it (index             *)
(* translation, decay-graph traversal, range mapping) together with their  *)
(* form (schema) twins.                                                     *)
(*                                                                         *)
(* A value on the stack is a record [t |-> tag, v |-> payload]:            *)
(*   "flat"    one-dimensional integer buffer, v a sequence of integers    *)
(*   "jag"     ListOffsetArray of integers, v a sequence of sequences      *)
(*   "jag2"    doubly nested list array, v a sequence of seq. of sequences *)
(*   "jagrec"  ListOffsetArray of records, v a sequence of seq. of records *)
(*   "list", "masked", "indexed", "union"  other awkward layouts           *)
(*   "str"     a field name                                                *)
(* The result of a form function is tagged "form"; its payload is the     *)
(* form dictionary.                                                        *)
(*                                                                         *)
(* stack    the operand stack                                              *)
(* applied  the operations applied so far, each with the stack before and  *)
(*          after it, what it popped and pushed, and whether it raised     *)
(* nPushed  the number of inputs pushed                                    *)
(* err      the exception that aborted the evaluation, "" when none        *)
(* formcall the form function called, its operand forms and its result     *)
(***************************************************************************)
EXTENDS Integers, Sequences, FiniteSets, TLC

VARIABLES stack, applied, nPushed, err, formcall

vars == <<stack, applied, nPushed, err, formcall>>

\* ------------------------------------------------------------------ bounds
MaxPart == 2
MaxLen == 2
MaxCount == 2
MaxOps == 3
MaxIndexers == 3
MaxBelow == 1

\* ------------------------------------------------------------------ helpers
Flat(a) == [t |-> "flat", v |-> a]
Jag(j) == [t |-> "jag", v |-> j]
Jag2(j) == [t |-> "jag2", v |-> j]

Range(s) == {s[i] : i \in DOMAIN s}

SeqsUpTo(S, n) == UNION {[1..k -> S] : k \in 0..n}

RECURSIVE SumSeq(_)
SumSeq(s) == IF s = <<>> THEN 0 ELSE s[1] + SumSeq(Tail(s))

RECURSIVE Concat(_)
Concat(ss) == IF ss = <<>> THEN <<>> ELSE ss[1] \o Concat(Tail(ss))

Counts(j) == [i \in DOMAIN j |-> Len(j[i])]

\* the integers a, a+1, ..., b-1 as a sequence (Python's range(a, b))
PyRange(a, b) == IF b <= a THEN <<>> ELSE [i \in 1..(b - a) |-> a + i - 1]

\* the k-th entry from the top of the stack (0 is the top)
At(s, k) == s[Len(s) - k]

Drop(s, k) == SubSeq(s, 1, Len(s) - k)

\* ------------------------------------------------------------------ index translation
\* numpy.cumsum written behind a leading 0
counts2offsets_out_shifted(counts) ==
    [i \in 1..(Len(counts) + 1) |-> IF i <= 2 THEN 0 ELSE SumSeq(SubSeq(counts, 1, i - 2))]

counts2offsets_out(counts) ==
    [i \in 1..(Len(counts) + 1) |-> IF i = 1 THEN 0 ELSE SumSeq(SubSeq(counts, 1, i - 1))]

\* one entry of local2global: the two option-type masks, then fill_none(-1)
local2global_entry_nolower(x, lo, hi) ==
    IF x + lo < hi THEN x + lo ELSE -1

local2global_entry(x, lo, hi) ==
    IF x >= 0 /\ x + lo < hi THEN x + lo ELSE -1

\* index is jagged with one sublist per event; target_offsets[:-1] and
\* target_offsets[1:] broadcast along the events
local2global_out(index, target_offsets) ==
    Concat([e \in DOMAIN index |->
              [i \in DOMAIN index[e] |->
                 local2global_entry(index[e][i], target_offsets[e], target_offsets[e + 1])]])

\* ------------------------------------------------------------------ decay-graph traversal
\* ListOffsetArray(offsets, content) as a sequence of sublists
FromOffsets(offs, cont) ==
    [i \in 1..(Len(offs) - 1) |-> SubSeq(cont, offs[i] + 1, offs[i + 1])]

\* A read of allpart_pdg past its end is not defined: the loop condition
\* reads allpart_pdg[parent] before parent is compared with the length. The
\* value read is the walker's species ("same"), another value ("other"), or
\* the read itself is refused ("fault").
OutsideReads == {"same", "other", "fault"}

\* a walk that stops at the parent it starts from, whatever its species
distinctParent_walk_one_step(parent, thispdg, allpart_parent, allpart_pdg, visited, oob) ==
    [end |-> "done", at |-> parent]

\* the while loop of _distinctParent_kernel. The result tells how the loop
\* ends: "done" with the value written to out[i], with an exception, or
\* "diverges" when the walk comes back to a particle it has already left and
\* so repeats for ever
RECURSIVE distinctParent_walk(_, _, _, _, _, _)
distinctParent_walk(parent, thispdg, allpart_parent, allpart_pdg, visited, oob) ==
    IF parent < 0 THEN [end |-> "done", at |-> parent]
    ELSE IF parent >= Len(allpart_pdg)
    THEN CASE oob = "same" ->
                [end |-> "RuntimeError: parent index beyond length of array!", at |-> parent]
           [] oob = "other" -> [end |-> "done", at |-> parent]
           [] oob = "fault" -> [end |-> "IndexError: index out of range", at |-> parent]
    ELSE IF allpart_pdg[parent + 1] # thispdg THEN [end |-> "done", at |-> parent]
    ELSE IF parent \in visited THEN [end |-> "diverges", at |-> parent]
    ELSE distinctParent_walk(allpart_parent[parent + 1], thispdg,
                             allpart_parent, allpart_pdg, visited \cup {parent}, oob)

\* a walk that skips one more ancestor after the first distinct one
distinctParent_entry_skips_one(i, allpart_parent, allpart_pdg, oob) ==
    IF allpart_parent[i + 1] < 0 THEN [end |-> "done", at |-> -1]
    ELSE LET w == distinctParent_walk(allpart_parent[i + 1], allpart_pdg[i + 1],
                                      allpart_parent, allpart_pdg, {}, oob)
         IN  IF w.end = "done" /\ w.at >= 0 /\ w.at < Len(allpart_parent)
             THEN [end |-> "done", at |-> allpart_parent[w.at + 1]]
             ELSE w

distinctParent_entry(i, allpart_parent, allpart_pdg, oob) ==
    IF allpart_parent[i + 1] < 0 THEN [end |-> "done", at |-> -1]
    ELSE distinctParent_walk(allpart_parent[i + 1], allpart_pdg[i + 1],
                             allpart_parent, allpart_pdg, {}, oob)

\* [end, out]: out is the returned buffer when every walk is done; oob[k] is
\* what the walk of particle k-1 reads past the end
_distinctParent_kernel(allpart_parent, allpart_pdg, oob) ==
    LET w == [k \in 1..Len(allpart_pdg) |->
                distinctParent_entry(k - 1, allpart_parent, allpart_pdg, oob[k])]
        bad == {k \in DOMAIN w : w[k].end # "done"}
        first == CHOOSE k \in bad : \A j \in bad : k <= j
    IN  IF bad = {} THEN [end |-> "done", out |-> [k \in DOMAIN w |-> w[k].at]]
        ELSE [end |-> w[first].end, out |-> <<>>]

\* the positions the inner loop of _children_kernel visits for one index
children_candidates_whole_event(index, start_src, stop_src) == PyRange(start_src, stop_src)

\* a scan that starts at the first particle of the array
children_candidates_from_array_start(index, start_src, stop_src) == PyRange(0, stop_src)

children_candidates(index, start_src, stop_src) == PyRange(index, stop_src)

\* an output whose offsets buffer already holds one entry too many
KernelStart_extra_offset == [offsets |-> <<0, 0>>, content |-> <<>>, err |-> ""]

KernelStart == [offsets |-> <<0>>, content |-> <<>>, err |-> ""]

RECURSIVE children_inner(_, _, _, _)
children_inner(parentidx, index, cand, st) ==
    IF st.err # "" \/ cand = <<>> THEN st
    ELSE IF parentidx[cand[1] + 1] = index
         THEN IF Len(st.content) >= Len(parentidx)
              THEN [st EXCEPT !.err = "offset1 went out of bounds!"]
              ELSE children_inner(parentidx, index, Tail(cand),
                                  [st EXCEPT !.content = Append(@, cand[1])])
         ELSE children_inner(parentidx, index, Tail(cand), st)

RECURSIVE children_index(_, _, _, _, _)
children_index(parentidx, index, start_src, stop_src, st) ==
    IF st.err # "" \/ index >= stop_src THEN st
    ELSE LET s1 == children_inner(parentidx, index,
                                  children_candidates(index, start_src, stop_src), st)
         IN  IF s1.err # "" THEN s1
             ELSE IF Len(s1.offsets) >= Len(parentidx) + 1
                  THEN [s1 EXCEPT !.err = "offset0 went out of bounds!"]
                  ELSE children_index(parentidx, index + 1, start_src, stop_src,
                                      [s1 EXCEPT !.offsets = Append(@, Len(s1.content))])

RECURSIVE children_record(_, _, _, _)
children_record(offsets_in, parentidx, record_index, st) ==
    IF st.err # "" \/ record_index >= Len(offsets_in) - 1 THEN st
    ELSE children_record(offsets_in, parentidx, record_index + 1,
                         children_index(parentidx, offsets_in[record_index + 1],
                                        offsets_in[record_index + 1],
                                        offsets_in[record_index + 2], st))

_children_kernel(offsets_in, parentidx) ==
    children_record(offsets_in, parentidx, 0, KernelStart)

\* the test that opens a deep lookup
dcd_starts_lineage_no_parent_test(index, global_parents, global_pdgs) ==
    \/ global_parents[index + 1] < 0
    \/ global_pdgs[index + 1] # global_pdgs[global_parents[index + 1] + 1]

dcd_starts_lineage(index, global_parents, global_pdgs) ==
    /\ global_parents[index + 1] >= 0
    /\ global_pdgs[index + 1] # global_pdgs[global_parents[index + 1] + 1]

\* ls = [parents, parents_with_children, content, err]; size is stop_src - index
RECURSIVE dcd_scan(_, _, _, _, _, _)
dcd_scan(cand, size, this_pdg, global_parents, global_pdgs, ls) ==
    IF ls.err # "" \/ cand = <<>> THEN ls
    ELSE LET possible_child == cand[1]
             possible_parent == global_parents[possible_child + 1]
             found == \E k \in DOMAIN ls.parents : ls.parents[k] = possible_parent
             next == IF ~found THEN ls
                     ELSE IF Len(ls.parents_with_children) >= size
                     THEN [ls EXCEPT !.err = "offset3 went out of bounds!"]
                     ELSE IF global_pdgs[possible_child + 1] = this_pdg
                     THEN IF Len(ls.parents) >= size
                          THEN [ls EXCEPT !.err = "offset2 went out of bounds!"]
                          ELSE [ls EXCEPT
                                  !.parents_with_children = Append(@, possible_parent),
                                  !.parents = Append(@, possible_child)]
                     ELSE IF Len(ls.content) >= Len(global_parents)
                          THEN [ls EXCEPT !.err = "offset1 went out of bounds!"]
                          ELSE [ls EXCEPT
                                  !.parents_with_children = Append(@, possible_parent),
                                  !.content = Append(@, possible_child)]
         IN  dcd_scan(Tail(cand), size, this_pdg, global_parents, global_pdgs, next)

\* every relay ancestor after the first is appended, childless or not
dcd_leaves_all(parent_index, n, ls) ==
    [ls EXCEPT !.content = @ \o SubSeq(ls.parents, parent_index, Len(ls.parents))]

\* parents with the same pdg id that have no children, from position 1 on
RECURSIVE dcd_leaves(_, _, _)
dcd_leaves(parent_index, n, ls) ==
    IF ls.err # "" \/ parent_index > Len(ls.parents) THEN ls
    ELSE IF ls.parents[parent_index] \in Range(ls.parents_with_children)
    THEN dcd_leaves(parent_index + 1, n, ls)
    ELSE IF Len(ls.content) >= n
    THEN [ls EXCEPT !.err = "offset1 went out of bounds! pt2"]
    ELSE dcd_leaves(parent_index + 1, n,
                    [ls EXCEPT !.content = Append(@, ls.parents[parent_index])])

RECURSIVE dcd_index(_, _, _, _, _)
dcd_index(global_parents, global_pdgs, index, stop_src, st) ==
    IF st.err # "" \/ index >= stop_src THEN st
    ELSE LET ls0 == [parents |-> <<index>>, parents_with_children |-> <<>>,
                     content |-> st.content, err |-> ""]
             ls1 == dcd_scan(PyRange(index, stop_src), stop_src - index,
                             global_pdgs[index + 1], global_parents, global_pdgs, ls0)
             ls2 == dcd_leaves(2, Len(global_parents), ls1)
             s1 == IF dcd_starts_lineage(index, global_parents, global_pdgs)
                   THEN [st EXCEPT !.content = ls2.content, !.err = ls2.err]
                   ELSE st
         IN  IF s1.err # "" THEN s1
             ELSE IF Len(s1.offsets) >= Len(global_parents) + 1
                  THEN [s1 EXCEPT !.err = "offset0 went out of bounds!"]
                  ELSE dcd_index(global_parents, global_pdgs, index + 1, stop_src,
                                 [s1 EXCEPT !.offsets = Append(@, Len(s1.content))])

RECURSIVE dcd_record(_, _, _, _, _)
dcd_record(offsets_in, global_parents, global_pdgs, record_index, st) ==
    IF st.err # "" \/ record_index >= Len(offsets_in) - 1 THEN st
    ELSE dcd_record(offsets_in, global_parents, global_pdgs, record_index + 1,
                    dcd_index(global_parents, global_pdgs, offsets_in[record_index + 1],
                              offsets_in[record_index + 2], st))

_distinctChildrenDeep_kernel(offsets_in, global_parents, global_pdgs) ==
    dcd_record(offsets_in, global_parents, global_pdgs, 0, KernelStart)

\* ------------------------------------------------------------------ further index operations
\* awkward.unflatten(numpy.arange(target_offsets[-1]), awkward.flatten(local_counts))
counts2nestedindex_out(local_counts, target_offsets) ==
    LET counts == Concat(local_counts)
        offs == counts2offsets_out(counts)
    IN  FromOffsets(offs, PyRange(0, target_offsets[Len(target_offsets)]))

\* out[i::n] = idx for every indexer, then sublists of n entries
nestedindex_out(indexers) ==
    [k \in 1..Len(indexers[1]) |-> [i \in 1..Len(indexers) |-> indexers[i][k]]]

eventindex_out(out) ==
    [e \in DOMAIN out |-> [i \in DOMAIN out[e] |-> e - 1]]

\* all_index is awkward.local_index(target, axis=1)
_grow_local_index_to_target_shape_kernel(index, all_index) ==
    [i \in DOMAIN all_index |->
       [k \in DOMAIN all_index[i] |->
          IF all_index[i][k] \in Range(index[i]) THEN all_index[i][k] ELSE -1]]

local_index(target) ==
    [e \in DOMAIN target |-> [k \in DOMAIN target[e] |-> k - 1]]

\* array is doubly jagged; the inner level is flattened, translated and re-nested
nested_local2global_stack_out(array, target_offsets) ==
    IF SumSeq(Concat([e \in DOMAIN array |-> Counts(array[e])])) = 0
    THEN array
    ELSE [e \in DOMAIN array |->
            [j \in DOMAIN array[e] |->
               [i \in DOMAIN array[e][j] |->
                  local2global_entry(array[e][j][i], target_offsets[e],
                                     target_offsets[e + 1])]]]

\* ------------------------------------------------------------------ range mapper
get_index_ranges_kernel(begin, end) ==
    [ev \in DOMAIN begin |->
       [j \in DOMAIN begin[ev] |-> PyRange(begin[ev][j], end[ev][j])]]

Negatives(s) == SelectSeq(s, LAMBDA x : x < 0)

\* awkward.sum(ranges): the sum of every integer the kernel emitted
SumRanges(ranges) ==
    SumSeq(Concat([ev \in DOMAIN ranges |-> Concat(ranges[ev])]))

get_index_ranges(begin, end) ==
    LET ranges == get_index_ranges_kernel(begin, end)
    IN  IF SumRanges(ranges) = 0
        THEN [ev \in DOMAIN begin |->
                [j \in DOMAIN begin[ev] |-> Negatives(<<begin[ev][j], end[ev][j]>>)]]
        ELSE ranges

\* indices[indices < 0]
OnlyNegative(indices) ==
    [ev \in DOMAIN indices |-> [j \in DOMAIN indices[ev] |-> Negatives(indices[ev][j])]]

\* builder.real(x): the value as a float64
real(x) == [f64 |-> x]

InRange(indices, target) ==
    \A ev \in DOMAIN indices : \A j \in DOMAIN indices[ev] :
        \A i \in DOMAIN indices[ev][j] :
            /\ ev \in DOMAIN target
            /\ indices[ev][j][i] + 1 \in DOMAIN target[ev]

get_array_from_indices_kernel(indices, target) ==
    [ev \in DOMAIN indices |->
       [j \in DOMAIN indices[ev] |->
          [i \in DOMAIN indices[ev][j] |-> real(target[ev][indices[ev][j][i] + 1])]]]

get_array_from_indices_nested_target_kernel(indices, target) ==
    [ev \in DOMAIN indices |->
       [j \in DOMAIN indices[ev] |->
          [i \in DOMAIN indices[ev][j] |->
             LET inner == target[ev][indices[ev][j][i] + 1]
             IN  [n \in DOMAIN inner |-> real(inner[n])]]]]

\* [err, out] of begin_end_mapping after its three pops
begin_end_mapping_out(begin, end, target) ==
    LET indices == get_index_ranges(begin, end)
    IN  IF SumSeq(Counts(target.v)) = 0
        THEN [err |-> "", out |-> Jag2(OnlyNegative(indices))]
        ELSE IF SumSeq(Counts(indices)) = 0
        THEN [err |-> "", out |-> Jag2(OnlyNegative(indices))]
        ELSE IF ~InRange(indices, target.v)
        THEN [err |-> "IndexError", out |-> Jag2(<<>>)]
        ELSE IF target.t = "jag"
        THEN [err |-> "",
              out |-> [t |-> "jag2real", v |-> get_array_from_indices_kernel(indices, target.v)]]
        ELSE [err |-> "",
              out |-> [t |-> "jag3real",
                       v |-> get_array_from_indices_nested_target_kernel(indices, target.v)]]

\* "indices, o1, o2 = get_index_ranges(begin, end)" unpacks the events of the
\* result: it needs exactly three of them and keeps the first
begin_end_mapping_with_xyzrecord_out(begin, end, target) ==
    LET ranges == get_index_ranges(begin, end)
        indices == ranges[1]
    IN  IF Len(ranges) # 3
        THEN [err |-> "ValueError: unpack", out |-> Jag(<<>>)]
        ELSE IF target.t # "jagrec"
        THEN [err |-> "RuntimeError: Target is a ListOffset.", out |-> Jag(<<>>)]
        ELSE IF SumSeq(Counts(target.v)) = 0
        THEN [err |-> "", out |-> Jag([j \in DOMAIN indices |-> Negatives(indices[j])])]
        ELSE IF SumSeq(Counts(indices)) = 0
        THEN [err |-> "", out |-> Jag([j \in DOMAIN indices |-> Negatives(indices[j])])]
        ELSE [err |-> "TypingError: integer is not iterable", out |-> Jag(<<>>)]

\* ------------------------------------------------------------------ results
\* What a function hands back: its value, or the exception it raised.
Ok(out) == [err |-> "", out |-> out]

Raise(e) == [err |-> e, out |-> Flat(<<>>)]

\* ------------------------------------------------------------------ forms
\* A form is a dictionary, here a function from its keys to their values. A
\* form_key is a sequence of tokens: the names of the inputs and the names of
\* the operations, each with its leading "!".
concat(parts) == Concat(parts)

\* dict[name] = val, adding the key when the dictionary lacks it
SetItem(dict, name, val) ==
    [k \in (DOMAIN dict) \cup {name} |-> IF k = name THEN val ELSE dict[k]]

HasKey(dict, name) == name \in DOMAIN dict

IsListOffset(form) == form["class"] = "ListOffsetArray"

Int64Content == [class |-> "NumpyArray", itemsize |-> 8, format |-> "i", primitive |-> "int64"]

Float64Content == [class |-> "NumpyArray", itemsize |-> 8, format |-> "i", primitive |-> "float64"]

ListOf(cont) == [class |-> "ListOffsetArray", offsets |-> "i64", content |-> cont]

FormOk(form) == [err |-> "", out |-> [t |-> "form", v |-> form]]

counts2offsets_form_out(counts_form) ==
    FormOk([class |-> "NumpyArray", itemsize |-> 8, format |-> "i", primitive |-> "int64",
            parameters |-> IF HasKey(counts_form, "parameters")
                           THEN counts_form["parameters"] ELSE "None",
            form_key |-> concat(<<counts_form["form_key"], <<"!counts2offsets">>>>)])

local2global_form_out(idx, target_offsets) ==
    IF ~IsListOffset(idx) THEN Raise("RuntimeError")
    ELSE IF target_offsets["class"] # "NumpyArray" THEN Raise("RuntimeError")
    ELSE LET key == concat(<<idx["form_key"], target_offsets["form_key"], <<"!local2global">>>>)
             cont == SetItem(SetItem(SetItem(idx["content"], "form_key", key),
                                     "itemsize", 8), "primitive", "int64")
         IN  FormOk(SetItem(idx, "content", cont))

counts2nestedindex_form_out(local_counts, target_offsets) ==
    IF ~IsListOffset(local_counts) THEN Raise("RuntimeError")
    ELSE IF target_offsets["class"] # "NumpyArray" THEN Raise("RuntimeError")
    ELSE LET key == concat(<<local_counts["form_key"], target_offsets["form_key"],
                             <<"!counts2nestedindex">>>>)
             inner == SetItem(SetItem(SetItem(SetItem(local_counts["content"],
                          "itemsize", 8), "primitive", "int64"), "parameters", "{}"),
                          "form_key", concat(<<key, <<"!content">>>>))
             cont == SetItem(SetItem(local_counts, "content", inner), "form_key", key)
         IN  FormOk(SetItem(ListOf(cont), "form_key", local_counts["form_key"]))

distinctParent_form_out(parents, pdg) ==
    IF ~IsListOffset(parents) THEN Raise("RuntimeError")
    ELSE IF ~IsListOffset(pdg) THEN Raise("RuntimeError")
    ELSE FormOk(SetItem(
            ListOf(SetItem(Int64Content, "form_key",
                           concat(<<parents["content"]["form_key"],
                                    pdg["content"]["form_key"], <<"!distinctParent">>>>))),
            "form_key", parents["form_key"]))

\* the doubly nested int64 result of children and distinctChildrenDeep
NestedResult(top_key, key) ==
    SetItem(ListOf(SetItem(ListOf(SetItem(Int64Content, "form_key",
                                          concat(<<key, <<"!content">>>>))),
                           "form_key", key)),
            "form_key", top_key)

children_form_out(offs, globalparents) ==
    IF ~IsListOffset(globalparents) THEN Raise("RuntimeError")
    ELSE FormOk(NestedResult(offs["form_key"],
                             concat(<<offs["form_key"], globalparents["content"]["form_key"],
                                      <<"!children">>>>)))

distinctChildrenDeep_form_out(offs, global_parents, global_pdgs) ==
    IF ~IsListOffset(global_parents) THEN Raise("RuntimeError")
    ELSE IF ~IsListOffset(global_pdgs) THEN Raise("RuntimeError")
    ELSE FormOk(NestedResult(offs["form_key"],
                             concat(<<offs["form_key"], global_parents["content"]["form_key"],
                                      global_pdgs["content"]["form_key"],
                                      <<"!distinctChildrenDeep">>>>)))

nestedindex_form_out(indices) ==
    IF indices = <<>> THEN Raise("IndexError")
    ELSE IF \E i \in DOMAIN indices : ~IsListOffset(indices[i]) THEN Raise("RuntimeError")
    ELSE LET key == concat([i \in DOMAIN indices |-> indices[i]["content"]["form_key"]]
                           \o <<<<"!nestedindex">>>>)
             inner == SetItem(indices[1]["content"], "form_key", concat(<<key, <<"!content">>>>))
             cont == SetItem(SetItem(indices[1], "content", inner), "form_key", key)
         IN  FormOk([class |-> "ListOffsetArray", offsets |-> indices[1]["offsets"],
                     content |-> cont, form_key |-> indices[1]["form_key"]])

grow_local_index_to_target_shape_form_out(idx, target) ==
    IF ~IsListOffset(idx) THEN Raise("RuntimeError")
    ELSE IF ~IsListOffset(target) THEN Raise("RuntimeError")
    ELSE LET cont == SetItem(SetItem(SetItem(idx["content"], "form_key",
                         concat(<<idx["content"]["form_key"], target["content"]["form_key"]>>)),
                         "itemsize", 8), "primitive", "int64")
         IN  FormOk(SetItem(SetItem(idx, "content", cont), "form_key",
                            concat(<<idx["form_key"], target["form_key"],
                                     <<"!grow_local_index_to_target_shape">>>>)))

nested_local2global_form_out(array_form, target_offsets_form) ==
    IF ~IsListOffset(array_form) THEN Raise("RuntimeError")
    ELSE IF target_offsets_form["class"] # "NumpyArray" THEN Raise("RuntimeError")
    ELSE IF ~HasKey(array_form["content"], "content") THEN Raise("KeyError: content")
    ELSE LET inner == SetItem(SetItem(array_form["content"]["content"], "primitive", "int64"),
                              "form_key",
                              concat(<<array_form["form_key"], target_offsets_form["form_key"],
                                       <<"!nested_local2global_stack">>, <<"!content">>,
                                       <<"!content">>>>))
         IN  FormOk(SetItem(array_form, "content",
                            SetItem(array_form["content"], "content", inner)))

BeginEndKey(begin_form, end_form, target_form) ==
    concat(<<begin_form["form_key"], end_form["form_key"], target_form["form_key"],
             <<"!begin_end_mapping">>>>)

begin_end_mapping_form_out(begin_form, end_form, target_form) ==
    IF ~IsListOffset(begin_form) \/ ~IsListOffset(end_form) \/ ~IsListOffset(target_form)
    THEN Raise("RuntimeError")
    ELSE LET key == BeginEndKey(begin_form, end_form, target_form)
         IN  FormOk(SetItem(
                ListOf(SetItem(ListOf(SetItem(Float64Content, "form_key",
                                              concat(<<key, <<"!content">>, <<"!content">>>>))),
                               "form_key", concat(<<key, <<"!content">>>>))),
                "form_key", key))

begin_end_mapping_nested_target_form_out(begin_form, end_form, target_form) ==
    IF ~IsListOffset(begin_form) \/ ~IsListOffset(end_form) \/ ~IsListOffset(target_form)
    THEN Raise("RuntimeError")
    ELSE LET key == BeginEndKey(begin_form, end_form, target_form)
         IN  FormOk(SetItem(
                ListOf(SetItem(
                   ListOf(SetItem(
                      ListOf(SetItem(Float64Content, "form_key",
                                     concat(<<key, <<"!content">>, <<"!content">>,
                                              <<"!content">>>>))),
                      "form_key", concat(<<key, <<"!content">>, <<"!content">>>>))),
                   "form_key", concat(<<key, <<"!content">>>>))),
                "form_key", key))

\* the record check is made only when the target is not a ListOffsetArray;
\* the target's content is taken as it is and given the new key
begin_end_mapping_with_xyzrecord_form_out(begin_form, end_form, target_form) ==
    IF ~IsListOffset(begin_form) \/ ~IsListOffset(end_form) THEN Raise("RuntimeError")
    ELSE IF ~HasKey(target_form, "content") THEN Raise("KeyError: content")
    ELSE IF ~IsListOffset(target_form) /\ target_form["content"]["class"] # "RecordArray"
    THEN Raise("RuntimeError")
    ELSE LET key == BeginEndKey(begin_form, end_form, target_form)
         IN  FormOk(SetItem(
                ListOf(SetItem(ListOf(SetItem(target_form["content"], "form_key",
                                              concat(<<key, <<"!content">>, <<"!content">>>>))),
                               "form_key", concat(<<key, <<"!content">>>>))),
                "form_key", key))

\* the operand forms after a form call that builds its result from a deep copy
\* or a fresh dictionary
operands_untouched(args) == args

\* the operand forms after begin_end_mapping_with_xyzrecord_form: the result
\* holds target_form["content"] itself, not a copy, so the key written into
\* the result's innermost content is written into the operand
begin_end_mapping_with_xyzrecord_form_operands(begin_form, end_form, target_form) ==
    IF begin_end_mapping_with_xyzrecord_form_out(begin_form, end_form, target_form).err # ""
    THEN <<begin_form, end_form, target_form>>
    ELSE LET key == BeginEndKey(begin_form, end_form, target_form)
         IN  <<begin_form, end_form,
               SetItem(target_form, "content",
                       SetItem(target_form["content"], "form_key",
                               concat(<<key, <<"!content">>, <<"!content">>>>)))>>

\* ------------------------------------------------------------------ runtime inputs
Species == {11, 13}

IsFlat(x) == x.t = "flat"
IsJag(x) == x.t = "jag"

NonDecreasing(a) == \A i \in 1..(Len(a) - 1) : a[i] <= a[i + 1]

\* an offsets buffer that starts at 0 and ends at n
IsOffsetsFor(a, n) == Len(a) >= 1 /\ a[1] = 0 /\ a[Len(a)] = n /\ NonDecreasing(a)

IsParents(a) == \A i \in DOMAIN a : a[i] \in -1..(Len(a) - 1)

\* parent indices that may point one position past the end of the array
IsParentsOrBeyond(a) == \A i \in DOMAIN a : a[i] \in -1..Len(a)

\* inputs hold no event, one event or two events
EventCounts == 0..2

\* per-event counts of events holding at most total entries in all
Shapes(total) ==
    {c \in UNION {[1..m -> 0..total] : m \in EventCounts} : SumSeq(c) <= total}

JagsOver(S, total) ==
    UNION {{FromOffsets(counts2offsets_out(c), cont) : cont \in [1..SumSeq(c) -> S]} :
           c \in Shapes(total)}

CountInputs == {Flat(c) : c \in SeqsUpTo(0..MaxCount, MaxLen)}

\* the particles of one event, or of two
OffsetInputs ==
    UNION {{Flat(<<0, n>>)} \cup {Flat(<<0, k, n>>) : k \in 0..n} : n \in 0..MaxPart}

ParentInputs == UNION {{Flat(a) : a \in [1..n -> -1..(n - 1)]} : n \in 0..MaxPart}

PdgInputs == UNION {{Flat(a) : a \in [1..n -> Species]} : n \in 0..MaxPart}

LocalIndexInputs == {Jag(j) : j \in JagsOver(-1..MaxCount, MaxLen)}

TargetOffsetInputs ==
    {Flat(counts2offsets_out(c)) : c \in UNION {[1..m -> 0..MaxCount] : m \in EventCounts}}

\* same-shape flat index buffers for nestedindex
IndexerLengths == 0..2
IndexerInputs == UNION {{Flat(a) : a \in [1..n -> {0, 1}]} : n \in IndexerLengths}

\* the inputs of the worked examples
ExampleParents == {Flat(<<-1, 0, 0, 1>>), Flat(<<-1, 0, 1, 1>>), Flat(<<-1, 0, 1>>),
                   Flat(<<-1, 0, 1, 2>>)}
ExamplePdgs == {Flat(<<11, 11, 13, 11>>), Flat(<<11, 11, 13>>), Flat(<<13, 11, 11, 13>>)}

\* corrupt parent indices: one past the end of the array
OutsideParents == {Flat(<<1>>), Flat(<<-1, 2>>), Flat(<<2, 0>>)}
ExampleOffsets == {Flat(<<0, 4>>), Flat(<<0, 3>>)}

\* begin, end and target of the range mapper: up to three events, at most
\* two positions in all
RangeShapes == {<<>>, <<0>>, <<1>>, <<2>>, <<1, 1>>, <<0, 1>>, <<1, 0, 0>>, <<0, 1, 1>>}
RangeValues == 0..2

BoundaryInputs ==
    UNION {{Jag(FromOffsets(counts2offsets_out(c), cont)) :
              cont \in [1..SumSeq(c) -> RangeValues]} : c \in RangeShapes}
    \cup {Jag(<<<<2>>>>), Jag(<<<<3>>>>), Jag(<<<<5>>>>)}

Iota(n) == [k \in 1..n |-> k - 1]
Shifted(n) == [k \in 1..n |-> 7 + 2 * k]
xyz(a) == [x |-> a, y |-> a + 1, z |-> a + 2]

\* every event of a target has the same n entries
TargetInputs ==
    UNION {UNION {{Jag([e \in 1..m |-> Iota(n)]), Jag([e \in 1..m |-> Shifted(n)]),
                   [t |-> "jag2", v |-> [e \in 1..m |-> [k \in 1..n |-> Iota(k)]]],
                   [t |-> "jagrec", v |-> [e \in 1..m |-> [k \in 1..n |-> xyz(10 * k)]]]} :
                  n \in {0, 3, 5}} : m \in 0..3}

\* small samples for the operations no bound is attached to
NestedIndexInputs == {Jag2(<<>>), Jag2(<<<<>>>>), Jag2(<<<<<<0, -1>>, <<2>>>>>>),
                      Jag2(<<<<<<1>>>>, <<<<>>, <<0>>>>>>)}

LayoutInputs ==
    {[t |-> "list", v |-> [starts |-> <<0, 2>>, stops |-> <<1, 3>>, content |-> <<4, 5, 6>>]],
     [t |-> "masked", v |-> [mask |-> <<0, 1>>, content |-> <<4, 5>>]],
     [t |-> "indexed", v |-> [index |-> <<1, 0, -1>>, content |-> <<4, 5>>]],
     [t |-> "union", v |-> [tags |-> <<0, 1>>, index |-> <<0, 0>>, content |-> <<4, 5>>]]}

FieldInputs == {[t |-> "str", v |-> f] : f \in {"x", "y", "z"}}

DataInputs ==
    CountInputs \cup OffsetInputs \cup ParentInputs \cup PdgInputs \cup LocalIndexInputs
    \cup TargetOffsetInputs \cup IndexerInputs \cup ExampleParents \cup ExamplePdgs
    \cup ExampleOffsets \cup OutsideParents \cup BoundaryInputs \cup TargetInputs \cup NestedIndexInputs
    \cup LayoutInputs \cup FieldInputs

\* the forms of the inputs: the i-th operand is the input named Keys[i]
Keys == <<"a", "b", "c", "d", "e">>

NumpyF(k) == [class |-> "NumpyArray", itemsize |-> 4, format |-> "i", primitive |-> "int32",
              parameters |-> "doc", form_key |-> k]

ListF(k) == SetItem(ListOf(NumpyF(k \o <<"!content">>)), "form_key", k)

List2F(k) == SetItem(ListOf(ListF(k \o <<"!content">>)), "form_key", k)

RecListF(k) ==
    SetItem(ListOf([class |-> "RecordArray", fields |-> <<"x", "y", "z">>,
                    form_key |-> k \o <<"!content">>]), "form_key", k)

FormInputs(i) == {NumpyF(<<Keys[i]>>), ListF(<<Keys[i]>>), List2F(<<Keys[i]>>),
                  RecListF(<<Keys[i]>>)}

FormArgs(n) ==
    {a \in [1..n -> UNION {FormInputs(i) : i \in 1..n}] : \A i \in 1..n : a[i] \in FormInputs(i)}

\* ------------------------------------------------------------------ the engine
Top(s) == s[Len(s)]

\* flat index buffers of n entries each
AllFlatOfLen(s, n) ==
    \A i \in DOMAIN s : IsFlat(s[i]) /\ Len(s[i].v) = n /\ Range(s[i].v) \subseteq {0, 1}

\* index1,index2,...,!nestedindex
CanPushIndexer(s, v) ==
    /\ Len(s) >= 1 /\ Len(s) < MaxIndexers /\ v \in IndexerInputs
    /\ AllFlatOfLen(s, Len(v.v))

\* The engine pushes the inputs an instruction sequence names: v may follow
\* the entries s already holds when together they are the leading operands of
\* an operation (its documented signature).
CanPush(s, v) ==
    LET n == Len(s) IN
    \/ n = 0
    \* offsets,globalparents,!children and distinctChildrenDeep
    \/ /\ n = 1 /\ IsFlat(s[1]) /\ v \in ParentInputs \cup ExampleParents
       /\ IsOffsetsFor(s[1].v, Len(v.v))
    \/ /\ n = 2 /\ IsFlat(s[1]) /\ IsFlat(s[2]) /\ v \in PdgInputs \cup ExamplePdgs
       /\ IsOffsetsFor(s[1].v, Len(s[2].v)) /\ IsParents(s[2].v)
       /\ Len(v.v) = Len(s[2].v)
    \* globalparents,globalpdgs,!distinctParent
    \/ /\ n = 1 /\ IsFlat(s[1]) /\ v \in PdgInputs \cup ExamplePdgs
       /\ IsParentsOrBeyond(s[1].v) /\ Len(v.v) = Len(s[1].v)
    \* index,target_offsets,!local2global and counts2nestedindex
    \/ /\ n = 1 /\ IsJag(s[1]) /\ v \in TargetOffsetInputs
       /\ Len(v.v) = Len(s[1].v) + 1
    \* begin,end,target and index,target,!grow_local_index_to_target_shape
    \/ /\ n = 1 /\ IsJag(s[1]) /\ v \in BoundaryInputs
       /\ Counts(v.v) = Counts(s[1].v)
    \/ /\ n = 2 /\ IsJag(s[1]) /\ IsJag(s[2]) /\ v \in TargetInputs
       /\ Counts(s[1].v) = Counts(s[2].v) /\ Len(v.v) = Len(s[1].v)
    \* array,target_offsets,!nested_local2global_stack
    \/ /\ n = 1 /\ s[1].t = "jag2" /\ v \in TargetOffsetInputs
       /\ Len(v.v) = Len(s[1].v) + 1
    \* array,field,!item
    \/ /\ n = 1 /\ s[1].t = "jagrec" /\ v \in FieldInputs
    \/ CanPushIndexer(s, v)

NoFormCall == [op |-> "", args |-> <<>>, r |-> Raise(""), after |-> <<>>]

Init ==
    /\ stack = <<>>
    /\ applied = <<>>
    /\ nPushed = 0
    /\ err = ""
    /\ formcall = NoFormCall

\* the inputs whose layout can follow the entry on top
Candidates(s) ==
    IF s = <<>> THEN DataInputs
    ELSE CASE Top(s).t = "flat" ->
                ParentInputs \cup ExampleParents \cup PdgInputs \cup ExamplePdgs
                \cup IndexerInputs
           [] Top(s).t = "jag" -> TargetOffsetInputs \cup BoundaryInputs \cup TargetInputs
           [] Top(s).t = "jag2" -> TargetOffsetInputs
           [] Top(s).t = "jagrec" -> FieldInputs
           [] OTHER -> {}

\* Sequences of several operations are followed from nestedindex on; after any
\* other operation the evaluation is over and its result is the output.
Continues ==
    /\ formcall = NoFormCall
    /\ err = "" /\ Len(applied) < MaxOps
    /\ IF applied = <<>> THEN TRUE ELSE applied[1].op = "nestedindex"

PushInput ==
    /\ Continues
    /\ \E v \in Candidates(stack) :
          /\ IF applied = <<>> THEN CanPush(stack, v) ELSE CanPushIndexer(stack, v)
          /\ stack' = Append(stack, v)
    /\ nPushed' = nPushed + 1
    /\ UNCHANGED <<applied, err, formcall>>

\* an operation can run: the evaluation has not been aborted and the stack
\* holds the k entries it pops
Ready(k) == Continues /\ Len(stack) >= k /\ Len(stack) <= k + MaxBelow

NoMid == <<>>

\* the operation popped k entries and then pushed r.out, or raised r.err
Return(op, k, r, mid) ==
    /\ stack' = IF r.err = "" THEN Append(Drop(stack, k), r.out) ELSE Drop(stack, k)
    /\ err' = r.err
    /\ applied' = Append(applied, [op |-> op, before |-> stack, after |-> stack',
                                   popped |-> k, pushed |-> IF r.err = "" THEN 1 ELSE 0,
                                   raised |-> r.err # "", error |-> r.err, mid |-> mid])
    /\ UNCHANGED <<nPushed, formcall>>

\* ------------------------------------------------------------------ layout projections
NoAttr == [t |-> "none", v |-> <<>>]

IsList(x) == x.t \in {"jag", "jag2", "jagrec"}

\* to_layout(array).<name>, NoAttr when the layout has no such attribute
Attr(x, name) ==
    IF IsList(x)
    THEN CASE name = "offsets" -> Flat(counts2offsets_out(Counts(x.v)))
           [] name = "starts" -> Flat(SubSeq(counts2offsets_out(Counts(x.v)), 1, Len(x.v)))
           [] name = "stops" -> Flat(Tail(counts2offsets_out(Counts(x.v))))
           [] name = "content" ->
                [t |-> CASE x.t = "jag" -> "flat" [] x.t = "jag2" -> "jag" [] OTHER -> "rec",
                 v |-> Concat(x.v)]
           [] OTHER -> NoAttr
    ELSE IF x.t \in {"list", "masked", "indexed", "union"} /\ name \in DOMAIN x.v
    THEN Flat(x.v[name])
    ELSE NoAttr

Project(name) ==
    /\ Ready(1)
    /\ Attr(Top(stack), name) # NoAttr
    /\ Return(name, 1, Ok(Attr(Top(stack), name)), NoMid)

\* ------------------------------------------------------------------ the operations
\* a no-op
data ==
    /\ Continues
    /\ applied' = Append(applied, [op |-> "data", before |-> stack, after |-> stack,
                                   popped |-> 0, pushed |-> 0,
                                   raised |-> FALSE, error |-> "", mid |-> NoMid])
    /\ UNCHANGED <<stack, nPushed, err, formcall>>

offsets == Project("offsets")

mask == Project("mask")

index == Project("index")

starts == Project("starts")

stops == Project("stops")

tags == Project("tags")

content == Project("content")

IsCounts(a) == \A i \in DOMAIN a : a[i] \in 0..MaxPart

counts2offsets ==
    /\ Ready(1)
    /\ IsFlat(Top(stack)) /\ IsCounts(Top(stack).v)
    /\ Return("counts2offsets", 1, Ok(Flat(counts2offsets_out(Top(stack).v))), NoMid)

local2global ==
    /\ Ready(2)
    /\ LET target_offsets == At(stack, 0)
           idx == At(stack, 1)
       IN  /\ IsFlat(target_offsets) /\ IsJag(idx)
           /\ Len(target_offsets.v) = Len(idx.v) + 1
           /\ Return("local2global", 2,
                     Ok(Flat(local2global_out(idx.v, target_offsets.v))), NoMid)

\* forgets the second pop
counts2nestedindex_one_pop ==
    /\ Ready(2)
    /\ LET target_offsets == At(stack, 0)
           local_counts == At(stack, 1)
       IN  /\ IsFlat(target_offsets) /\ IsJag(local_counts)
           /\ Len(target_offsets.v) = Len(local_counts.v) + 1
           /\ Return("counts2nestedindex", 1,
                     IF \/ \E x \in Range(Concat(local_counts.v)) : x < 0
                        \/ SumSeq(Concat(local_counts.v))
                             # target_offsets.v[Len(target_offsets.v)]
                     THEN Raise("ValueError: unflatten")
                     ELSE Ok(Jag(counts2nestedindex_out(local_counts.v, target_offsets.v))),
                     NoMid)

counts2nestedindex ==
    /\ Ready(2)
    /\ LET target_offsets == At(stack, 0)
           local_counts == At(stack, 1)
       IN  /\ IsFlat(target_offsets) /\ IsJag(local_counts)
           /\ Len(target_offsets.v) = Len(local_counts.v) + 1
           /\ Return("counts2nestedindex", 2,
                     IF \/ \E x \in Range(Concat(local_counts.v)) : x < 0
                        \/ SumSeq(Concat(local_counts.v))
                             # target_offsets.v[Len(target_offsets.v)]
                     THEN Raise("ValueError: unflatten")
                     ELSE Ok(Jag(counts2nestedindex_out(local_counts.v, target_offsets.v))),
                     NoMid)

distinctParent ==
    /\ Ready(2)
    /\ LET pdg == At(stack, 0)
           parents == At(stack, 1)
       IN  /\ IsFlat(pdg) /\ IsFlat(parents)
           /\ Len(pdg.v) = Len(parents.v) /\ IsParentsOrBeyond(parents.v)
           /\ \E oob \in [DOMAIN pdg.v -> OutsideReads] :
                 LET k == _distinctParent_kernel(parents.v, pdg.v, oob)
                 IN  Return("distinctParent", 2,
                            IF k.end = "done" THEN Ok(Flat(k.out)) ELSE Raise(k.end), NoMid)

children ==
    /\ Ready(2)
    /\ LET parents == At(stack, 0)
           offs == At(stack, 1)
       IN  /\ IsFlat(parents) /\ IsFlat(offs)
           /\ IsOffsetsFor(offs.v, Len(parents.v))
           /\ LET k == _children_kernel(offs.v, parents.v)
              IN  Return("children", 2,
                         IF k.err = "" THEN Ok(Jag(FromOffsets(k.offsets, k.content)))
                         ELSE Raise(k.err), NoMid)

distinctChildrenDeep ==
    /\ Ready(3)
    /\ LET global_pdgs == At(stack, 0)
           global_parents == At(stack, 1)
           offs == At(stack, 2)
       IN  /\ IsFlat(global_pdgs) /\ IsFlat(global_parents) /\ IsFlat(offs)
           /\ IsOffsetsFor(offs.v, Len(global_parents.v))
           /\ IsParents(global_parents.v) /\ Len(global_pdgs.v) = Len(global_parents.v)
           /\ LET k == _distinctChildrenDeep_kernel(offs.v, global_parents.v, global_pdgs.v)
              IN  Return("distinctChildrenDeep", 3,
                         IF k.err = "" THEN Ok(Jag(FromOffsets(k.offsets, k.content)))
                         ELSE Raise(k.err), NoMid)

\* indexers = stack[:]; stack.clear()
nestedindex ==
    /\ Ready(1)
    /\ AllFlatOfLen(stack, Len(stack[1].v))
    /\ Return("nestedindex", Len(stack),
              Ok(Jag(nestedindex_out([i \in DOMAIN stack |-> stack[i].v]))), NoMid)

item ==
    /\ Ready(2)
    /\ LET field == At(stack, 0)
           array == At(stack, 1)
       IN  /\ field.t = "str" /\ array.t = "jagrec"
           /\ Return("item", 2,
                     Ok(Jag([e \in DOMAIN array.v |->
                               [k \in DOMAIN array.v[e] |-> array.v[e][k][field.v]]])),
                     NoMid)

eventindex ==
    /\ Ready(1)
    /\ IsJag(Top(stack))
    /\ Return("eventindex", 1, Ok(Jag(eventindex_out(Top(stack).v))), NoMid)

grow_local_index_to_target_shape ==
    /\ Ready(2)
    /\ LET target == At(stack, 0)
           idx == At(stack, 1)
       IN  /\ IsJag(target) /\ IsJag(idx) /\ Len(target.v) = Len(idx.v)
           /\ Return("grow_local_index_to_target_shape", 2,
                     Ok(Jag(_grow_local_index_to_target_shape_kernel(
                              idx.v, local_index(target.v)))), NoMid)

nested_local2global_stack ==
    /\ Ready(2)
    /\ LET target_offsets_raw == At(stack, 0)
           array == At(stack, 1)
       IN  /\ IsFlat(target_offsets_raw) /\ array.t = "jag2"
           /\ Len(target_offsets_raw.v) = Len(array.v) + 1
           /\ Return("nested_local2global_stack", 2,
                     Ok(Jag2(nested_local2global_stack_out(array.v, target_offsets_raw.v))),
                     NoMid)

RangeOperands(begin, end, target) ==
    /\ IsJag(begin) /\ IsJag(end) /\ IsList(target)
    /\ Counts(begin.v) = Counts(end.v)
    /\ Len(target.v) = Len(begin.v)

begin_end_mapping ==
    /\ Ready(3)
    /\ LET target == At(stack, 0)
           end == At(stack, 1)
           begin == At(stack, 2)
       IN  /\ RangeOperands(begin, end, target)
           /\ Return("begin_end_mapping", 3,
                     IF target.t = "jagrec" THEN Raise("TypingError: record is not a number")
                     ELSE begin_end_mapping_out(begin.v, end.v, target),
                     get_index_ranges(begin.v, end.v))

begin_end_mapping_with_xyzrecord ==
    /\ Ready(3)
    /\ LET target == At(stack, 0)
           end == At(stack, 1)
           begin == At(stack, 2)
       IN  /\ RangeOperands(begin, end, target)
           /\ target.t \in {"jag", "jagrec"}
           /\ Return("begin_end_mapping_with_xyzrecord", 3,
                     begin_end_mapping_with_xyzrecord_out(begin.v, end.v, target),
                     get_index_ranges(begin.v, end.v))

\* ------------------------------------------------------------------ the form operations
\* A form function is called on the forms of its operands, before any data is
\* read; it returns the form of the result or raises.
FormCall(op, args, r, after) ==
    /\ formcall = NoFormCall /\ stack = <<>> /\ applied = <<>>
    /\ formcall' = [op |-> op, args |-> args, r |-> r, after |-> after]
    /\ UNCHANGED <<stack, applied, nPushed, err>>

counts2offsets_form ==
    \E a \in FormArgs(1) : FormCall("counts2offsets", a, counts2offsets_form_out(a[1]), operands_untouched(a))

local2global_form ==
    \E a \in FormArgs(2) : FormCall("local2global", a, local2global_form_out(a[1], a[2]), operands_untouched(a))

counts2nestedindex_form ==
    \E a \in FormArgs(2) :
        FormCall("counts2nestedindex", a, counts2nestedindex_form_out(a[1], a[2]), operands_untouched(a))

distinctParent_form ==
    \E a \in FormArgs(2) : FormCall("distinctParent", a, distinctParent_form_out(a[1], a[2]), operands_untouched(a))

children_form ==
    \E a \in FormArgs(2) : FormCall("children", a, children_form_out(a[1], a[2]), operands_untouched(a))

distinctChildrenDeep_form ==
    \E a \in FormArgs(3) :
        FormCall("distinctChildrenDeep", a, distinctChildrenDeep_form_out(a[1], a[2], a[3]), operands_untouched(a))

nestedindex_form ==
    \E n \in 0..MaxIndexers : \E a \in FormArgs(n) :
        FormCall("nestedindex", a, nestedindex_form_out(a), operands_untouched(a))

grow_local_index_to_target_shape_form ==
    \E a \in FormArgs(2) :
        FormCall("grow_local_index_to_target_shape", a,
                 grow_local_index_to_target_shape_form_out(a[1], a[2]), operands_untouched(a))

nested_local2global_form ==
    \E a \in FormArgs(2) :
        FormCall("nested_local2global_stack", a, nested_local2global_form_out(a[1], a[2]), operands_untouched(a))

begin_end_mapping_form ==
    \E a \in FormArgs(3) :
        FormCall("begin_end_mapping", a, begin_end_mapping_form_out(a[1], a[2], a[3]), operands_untouched(a))

begin_end_mapping_nested_target_form ==
    \E a \in FormArgs(3) :
        FormCall("begin_end_mapping_nested_target", a,
                 begin_end_mapping_nested_target_form_out(a[1], a[2], a[3]), operands_untouched(a))

begin_end_mapping_with_xyzrecord_form ==
    \E a \in FormArgs(3) :
        FormCall("begin_end_mapping_with_xyzrecord", a,
                 begin_end_mapping_with_xyzrecord_form_out(a[1], a[2], a[3]),
                 begin_end_mapping_with_xyzrecord_form_operands(a[1], a[2], a[3]))

Next ==
    \/ counts2offsets_form \/ local2global_form \/ counts2nestedindex_form
    \/ distinctParent_form \/ children_form \/ distinctChildrenDeep_form
    \/ nestedindex_form \/ grow_local_index_to_target_shape_form
    \/ nested_local2global_form \/ begin_end_mapping_form
    \/ begin_end_mapping_nested_target_form \/ begin_end_mapping_with_xyzrecord_form
    \/ PushInput
    \/ data \/ offsets \/ mask \/ index \/ starts \/ stops \/ tags \/ content
    \/ counts2offsets \/ local2global \/ counts2nestedindex
    \/ distinctParent \/ children \/ distinctChildrenDeep
    \/ nestedindex \/ item \/ eventindex
    \/ grow_local_index_to_target_shape \/ nested_local2global_stack
    \/ begin_end_mapping \/ begin_end_mapping_with_xyzrecord

Spec == Init /\ [][Next]_vars

\* ------------------------------------------------------------------ properties
\* the applications of op so far: the stack before, the stack after
Calls(op) == {applied[i] : i \in {j \in DOMAIN applied : applied[j].op = op}}

\* the members of a set of integers, in increasing order
Ascending(S) ==
    CHOOSE s \in [1..Cardinality(S) -> S] :
        \A i \in DOMAIN s : \A j \in DOMAIN s : i < j => s[i] < s[j]

\* position in the flattened content of entry k of event e
FlatPos(jag, e, k) == SumSeq(Counts(SubSeq(jag, 1, e - 1))) + k

\* C1: counts2offsets pushes, for counts C of length n, a sequence R of
\* length n+1 that starts at 0, whose consecutive differences are the counts
\* and whose last entry is the sum of the counts.
C1_CountsToOffsets ==
    \A c \in Calls("counts2offsets") :
        LET C == Top(c.before).v
            R == Top(c.after).v
            n == Len(C)
        IN  /\ ~c.raised
            /\ Len(c.after) = Len(c.before)
            /\ IsFlat(Top(c.after))
            /\ Len(R) = n + 1
            /\ R[1] = 0
            /\ \A i \in 1..n : R[i + 1] - R[i] = C[i]
            /\ R[n + 1] = SumSeq(C)

C1_Witness ==
    \E c \in Calls("counts2offsets") :
        /\ Len(Top(c.before).v) >= 2
        /\ \E i \in DOMAIN Top(c.before).v : Top(c.before).v[i] > 0

\* C2: local2global pushes one entry per entry of the local index, in the same
\* order; the entry for local value x of event e is x + T[e] when
\* 0 <= x < T[e+1] - T[e] and -1 otherwise.
C2_LocalToGlobal ==
    \A c \in Calls("local2global") :
        LET L == At(c.before, 1).v
            T == At(c.before, 0).v
            out == Top(c.after).v
        IN  /\ ~c.raised
            /\ Len(out) = SumSeq(Counts(L))
            /\ \A e \in DOMAIN L : \A k \in DOMAIN L[e] :
                  LET x == L[e][k]
                      y == out[FlatPos(L, e, k)]
                  IN  /\ y = IF 0 <= x /\ x < T[e + 1] - T[e] THEN x + T[e] ELSE -1
                      /\ y # -1 => y - T[e] = x

C2_Witness ==
    \E c \in Calls("local2global") :
        LET L == At(c.before, 1).v
            T == At(c.before, 0).v
            out == Top(c.after).v
        IN  /\ \E e \in DOMAIN L : \E k \in DOMAIN L[e] :
                  T[e] > 0 /\ out[FlatPos(L, e, k)] = L[e][k] + T[e]
            /\ \E e \in DOMAIN L : \E k \in DOMAIN L[e] :
                  L[e][k] >= 0 /\ out[FlatPos(L, e, k)] = -1

\* C3: children pushes one sublist per particle; the sublist of particle k of
\* an event [start, stop) is the increasing sequence of the indices j with
\* k <= j < stop and parent[j] = k. Parents [-1,0,0,1] in one event give
\* [[1,2],[3],[],[]].
C3_Children ==
    \A c \in Calls("children") :
        LET offs == At(c.before, 1).v
            parent == At(c.before, 0).v
            out == Top(c.after).v
        IN  /\ ~c.raised
            /\ Len(out) = Len(parent)
            /\ \A e \in 1..(Len(offs) - 1) : \A k \in offs[e]..(offs[e + 1] - 1) :
                  out[k + 1] = Ascending({j \in k..(offs[e + 1] - 1) : parent[j + 1] = k})
            /\ (offs = <<0, 4>> /\ parent = <<-1, 0, 0, 1>>)
                  => out = <<<<1, 2>>, <<3>>, <<>>, <<>>>>

C3_Witness ==
    \E c \in Calls("children") :
        /\ At(c.before, 1).v = <<0, 4>>
        /\ At(c.before, 0).v = <<-1, 0, 0, 1>>
        /\ ~c.raised

\* the worked example of distinctParent: species [A,A,B], parents [-1,0,1]
C4_Example(c) ==
    LET pdg == At(c.before, 0).v
    IN  /\ At(c.before, 1).v = <<-1, 0, 1>>
        /\ Len(pdg) = 3 /\ pdg[1] = pdg[2] /\ pdg[2] # pdg[3]

\* C4 as stated: on species [A,A,B] with parents [-1,0,1] distinctParent yields
\* [-1,-1,0], the result for particle 2 being particle 0.
C4_ExampleYieldsGrandparent ==
    \A c \in Calls("distinctParent") :
        C4_Example(c) => ~c.raised /\ Top(c.after).v = <<-1, -1, 0>>

\* C4: on species [A,A,B] with parents [-1,0,1] distinctParent yields
\* [-1,-1,1]: particle 2's own parent, particle 1, already has another species,
\* so the result for particle 2 is particle 1.
C4_ExampleYieldsParent ==
    \A c \in Calls("distinctParent") :
        C4_Example(c) => ~c.raised /\ Top(c.after).v = <<-1, -1, 1>>

C4_Witness ==
    \E c \in Calls("distinctParent") : C4_Example(c) /\ Len(c.after) = Len(c.before) - 1

\* the worked example of distinctChildrenDeep: one event, species [A,A,B,A],
\* 0 the head, 1 the child of 0, 2 and 3 the children of 1
C5_Example(c) ==
    LET pdg == At(c.before, 0).v
    IN  /\ At(c.before, 2).v = <<0, 4>>
        /\ At(c.before, 1).v = <<-1, 0, 1, 1>>
        /\ Len(pdg) = 4 /\ pdg[1] = pdg[2] /\ pdg[2] # pdg[3] /\ pdg[4] = pdg[1]

\* C5 as stated: on that event distinctChildrenDeep yields [2,3] for particle 0
\* and the empty list for particle 1.
C5_ExampleHeadGetsLeaves ==
    \A c \in Calls("distinctChildrenDeep") :
        C5_Example(c) =>
            ~c.raised /\ Top(c.after).v[1] = <<2, 3>> /\ Top(c.after).v[2] = <<>>

\* C5: on that event distinctChildrenDeep yields the empty list for every
\* particle: particle 0 has no parent and so starts no lineage, particles 1
\* and 3 have the species of their parent, particle 2 has no children.
C5_ExampleAllEmpty ==
    \A c \in Calls("distinctChildrenDeep") :
        C5_Example(c) => ~c.raised /\ Top(c.after).v = <<<<>>, <<>>, <<>>, <<>>>>

C5_Witness ==
    \E c \in Calls("distinctChildrenDeep") :
        C5_Example(c) /\ Len(c.after) = Len(c.before) - 2

\* the operands of a range-mapping call
Begin(c) == At(c.before, 2).v

End(c) == At(c.before, 1).v

Target(c) == At(c.before, 0)

\* C6: get_index_ranges gives one inner list per (event, position j), holding
\* begin[j], begin[j]+1, ..., end[j]-1 (empty when end[j] <= begin[j]); the
\* result is replaced by all-empty lists only when every range is empty;
\* begin=[2], end=[5] gives [2,3,4] and begin=[3], end=[3] gives []. Stated
\* here for the non-negative begin and end that index a target.
C6_IndexRanges ==
    \A c \in Calls("begin_end_mapping") :
        (\A ev \in DOMAIN Begin(c) : \A j \in DOMAIN Begin(c)[ev] :
            Begin(c)[ev][j] >= 0 /\ End(c)[ev][j] >= 0) =>
        /\ Len(c.mid) = Len(Begin(c))
        /\ \A ev \in DOMAIN Begin(c) :
              /\ Len(c.mid[ev]) = Len(Begin(c)[ev])
              /\ \A j \in DOMAIN Begin(c)[ev] :
                    c.mid[ev][j] = PyRange(Begin(c)[ev][j], End(c)[ev][j])

\* every event of the target holds 0, 1, ..., N-1 and 0 <= begin <= end <= N
C7_RangeTarget(c) ==
    /\ Target(c).t = "jag"
    /\ \A ev \in DOMAIN Target(c).v : Target(c).v[ev] = Iota(Len(Target(c).v[ev]))
    /\ \A ev \in DOMAIN Begin(c) : \A j \in DOMAIN Begin(c)[ev] :
          /\ 0 <= Begin(c)[ev][j]
          /\ Begin(c)[ev][j] <= End(c)[ev][j]
          /\ End(c)[ev][j] <= Len(Target(c).v[ev])

\* C7: with a target whose events hold 0, 1, ..., N-1, begin_end_mapping
\* gives for every position j with 0 <= begin[j] <= end[j] <= N the values
\* begin[j], ..., end[j]-1, ranges holding index 0 included.
C7_RoundTrip ==
    \A c \in Calls("begin_end_mapping") :
        C7_RangeTarget(c) =>
            /\ ~c.raised
            /\ Len(Top(c.after).v) = Len(Begin(c))
            /\ \A ev \in DOMAIN Begin(c) :
                  /\ Len(Top(c.after).v[ev]) = Len(Begin(c)[ev])
                  /\ \A j \in DOMAIN Begin(c)[ev] :
                        LET got == Top(c.after).v[ev][j]
                            want == PyRange(Begin(c)[ev][j], End(c)[ev][j])
                        IN  /\ Len(got) = Len(want)
                            /\ \A i \in DOMAIN want : got[i].f64 = want[i]

\* C10: for any number of events, begin_end_mapping_with_xyzrecord on a
\* non-empty target of x, y, z records pushes one result whose inner list for
\* (event, position j) holds the target's records at begin[j]..end[j]-1; it
\* raises only when the target has no fields.
C10_RecordVariantMaps ==
    \A c \in Calls("begin_end_mapping_with_xyzrecord") :
        (Target(c).t = "jagrec" /\ SumSeq(Counts(Target(c).v)) > 0) =>
              /\ ~c.raised
              /\ c.pushed = 1
              /\ Len(Top(c.after).v) = Len(Begin(c))
              /\ \A ev \in DOMAIN Begin(c) :
                    /\ Len(Top(c.after).v[ev]) = Len(Begin(c)[ev])
                    /\ \A j \in DOMAIN Begin(c)[ev] :
                          Top(c.after).v[ev][j] =
                              [i \in 1..Len(PyRange(Begin(c)[ev][j], End(c)[ev][j])) |->
                                 Target(c).v[ev][Begin(c)[ev][j] + i]]

\* the number of operands in each operation's documented signature
Arity(op) ==
    CASE op \in {"offsets", "mask", "index", "starts", "stops", "tags", "content",
                 "counts2offsets", "eventindex"} -> 1
      [] op \in {"local2global", "counts2nestedindex", "distinctParent", "children", "item",
                 "grow_local_index_to_target_shape", "nested_local2global_stack"} -> 2
      [] op \in {"distinctChildrenDeep", "begin_end_mapping",
                 "begin_end_mapping_with_xyzrecord"} -> 3

\* the call took k entries off the top and put c.pushed results there
Effect(c, k) ==
    /\ c.popped = k
    /\ Len(c.before) >= k
    /\ Len(c.after) = Len(c.before) - k + c.pushed
    /\ SubSeq(c.after, 1, Len(c.before) - k) = SubSeq(c.before, 1, Len(c.before) - k)

RECURSIVE NetPopped(_)
NetPopped(log) ==
    IF log = <<>> THEN 0 ELSE log[1].popped - log[1].pushed + NetPopped(Tail(log))

OpNames == {applied[i].op : i \in DOMAIN applied}

\* C8 as stated: every operation, data and nestedindex included, pops a number
\* of entries fixed for the operation and pushes exactly one result, leaving
\* the entries below unchanged; the depth is the number of pushed inputs minus
\* the sum of (arity - 1) over the applied operations.
C8_EveryOperationFixedArity ==
    /\ \A op \in OpNames : \E k \in 0..(MaxIndexers + 1) :
          \A c \in Calls(op) : ~c.raised => Effect(c, k) /\ c.pushed = 1
    /\ err = "" => Len(stack) = nPushed - NetPopped(applied)

\* C8: every operation other than data and nestedindex pops the fixed number
\* of entries of its signature and leaves the entries below unchanged; it
\* pushes exactly one result unless it raises, and then it pushes nothing.
\* nestedindex pops every entry the stack holds, whatever their number, and
\* pushes one result; data pops nothing and pushes nothing. The depth is the
\* number of pushed inputs, minus the entries popped, plus the results pushed.
C8_StackDiscipline ==
    /\ \A i \in DOMAIN applied :
          LET c == applied[i]
          IN  /\ c.pushed = IF c.raised \/ c.op = "data" THEN 0 ELSE 1
              /\ Effect(c, CASE c.op = "data" -> 0
                             [] c.op = "nestedindex" -> Len(c.before)
                             [] OTHER -> Arity(c.op))
    /\ Len(stack) = nPushed - NetPopped(applied)

\* nestedindex applied twice in one sequence, to stacks of different depths
C8_Witness ==
    \E c \in Calls("nestedindex") : \E d \in Calls("nestedindex") :
        c.popped # d.popped /\ ~c.raised /\ ~d.raised

\* every form_key a form holds, at any level
RECURSIVE FormKeys(_)
FormKeys(form) ==
    (IF HasKey(form, "form_key") THEN {form["form_key"]} ELSE {})
    \cup (IF HasKey(form, "content") THEN FormKeys(form["content"]) ELSE {})

\* the name under which the operation of a form function is registered
OwnName(op) ==
    CASE op = "counts2offsets" -> "!counts2offsets"
      [] op = "local2global" -> "!local2global"
      [] op = "counts2nestedindex" -> "!counts2nestedindex"
      [] op = "distinctParent" -> "!distinctParent"
      [] op = "children" -> "!children"
      [] op = "distinctChildrenDeep" -> "!distinctChildrenDeep"
      [] op = "nestedindex" -> "!nestedindex"
      [] op = "grow_local_index_to_target_shape" -> "!grow_local_index_to_target_shape"
      [] op = "nested_local2global_stack" -> "!nested_local2global_stack"
      [] op = "begin_end_mapping" -> "!begin_end_mapping"
      [] op = "begin_end_mapping_nested_target" -> "!begin_end_mapping"
      [] op = "begin_end_mapping_with_xyzrecord" -> "!begin_end_mapping_with_xyzrecord"

\* one key of each operand, in operand order, concatenated
RECURSIVE OperandPrefixes(_)
OperandPrefixes(args) ==
    IF args = <<>> THEN {<<>>}
    ELSE {k \o rest : k \in FormKeys(args[1]), rest \in OperandPrefixes(Tail(args))}

\* key is operand keys, then the name, then only "!content"
Derived(key, args, name) ==
    \E i \in DOMAIN key :
        /\ key[i] = name
        /\ \A j \in (i + 1)..Len(key) : key[j] = "!content"
        /\ SubSeq(key, 1, i - 1) \in OperandPrefixes(args)

\* the keys of the result that no operand holds
NewKeys(call) ==
    FormKeys(call.r.out.v) \ UNION {FormKeys(call.args[i]) : i \in DOMAIN call.args}

\* C9: every form_key a form operation newly assigns to its result, at any
\* level, is the keys of its operands in operand order, followed by the
\* operation's own name, followed only by "!content" for the deeper levels.
C9_FormKeyDerivation ==
    (formcall.op # "" /\ formcall.r.err = "") =>
        \A key \in NewKeys(formcall) : Derived(key, formcall.args, OwnName(formcall.op))

\* the k-th particle on the chain p, parent[p], parent[parent[p]], ...; the
\* chain stays where it is once it has left the array
RECURSIVE Ancestor(_, _, _)
Ancestor(parent, p, k) ==
    IF k = 0 \/ p < 0 \/ p >= Len(parent) THEN p
    ELSE Ancestor(parent, parent[p + 1], k - 1)

\* r is the first particle on the chain of i whose species differs from i's,
\* or -1 when the chain reaches a root first
FirstDistinctAncestor(parent, pdg, i, r) ==
    \E k \in 0..Len(parent) :
        /\ Ancestor(parent, parent[i + 1], k) = r
        /\ \A j \in 0..(k - 1) :
              LET a == Ancestor(parent, parent[i + 1], j)
              IN  a >= 0 /\ pdg[a + 1] = pdg[i + 1]
        /\ r = -1 \/ (r >= 0 /\ pdg[r + 1] # pdg[i + 1])

\* C11: the result of distinctParent for particle i is -1 when parent[i] < 0;
\* otherwise it is the first particle on the chain parent[i],
\* parent[parent[i]], ... whose species differs from that of i, or -1 when the
\* chain reaches a root first; a result other than -1 never has i's species.
C11_FirstDistinctAncestor ==
    \A c \in Calls("distinctParent") :
        LET parent == At(c.before, 1).v
            pdg == At(c.before, 0).v
            out == Top(c.after).v
        IN  (IsParents(parent) /\ ~c.raised) =>
               /\ Len(out) = Len(pdg)
               /\ \A i \in 0..(Len(pdg) - 1) :
                     /\ parent[i + 1] < 0 => out[i + 1] = -1
                     /\ FirstDistinctAncestor(parent, pdg, i, out[i + 1])
                     /\ out[i + 1] # -1 => pdg[out[i + 1] + 1] # pdg[i + 1]

\* one walk goes past a parent of the same species to a root, another ends
\* at a particle of another species
C11_Witness ==
    \E c \in Calls("distinctParent") :
        LET parent == At(c.before, 1).v
            out == Top(c.after).v
        IN  /\ IsParents(parent) /\ ~c.raised
            /\ \E i \in DOMAIN out : parent[i] >= 0 /\ out[i] = -1
            /\ \E i \in DOMAIN out : out[i] >= 0

\* particles a and b lie in the same event of offs
SameEvent(offs, a, b) ==
    \E e \in 1..(Len(offs) - 1) :
        /\ offs[e] <= a /\ a < offs[e + 1]
        /\ offs[e] <= b /\ b < offs[e + 1]

\* every index in the output list of a particle lies in the particle's event
ListsConfined(c, offs) ==
    \A k \in DOMAIN Top(c.after).v : \A n \in DOMAIN Top(c.after).v[k] :
        SameEvent(offs, k - 1, Top(c.after).v[k][n])

\* a distinctParent call made with the event offsets of its arrays on the
\* stack below its operands
OverOffsets(c) ==
    /\ Len(c.before) = 3 /\ IsFlat(c.before[1])
    /\ IsOffsetsFor(c.before[1].v, Len(At(c.before, 1).v))
    /\ IsParents(At(c.before, 1).v)

\* C12 as stated: distinctParent, children and distinctChildrenDeep stay
\* inside the event of the particle: no output entry for a particle refers to
\* a particle of another event, even when a parent index points there.
C12_AllKernelsConfined ==
    /\ \A c \in Calls("children") : ~c.raised => ListsConfined(c, At(c.before, 1).v)
    /\ \A c \in Calls("distinctChildrenDeep") :
          ~c.raised => ListsConfined(c, At(c.before, 2).v)
    /\ \A c \in Calls("distinctParent") :
          (OverOffsets(c) /\ ~c.raised) =>
              \A i \in DOMAIN Top(c.after).v :
                  Top(c.after).v[i] >= 0 =>
                      SameEvent(c.before[1].v, i - 1, Top(c.after).v[i])

\* C12: children and distinctChildrenDeep are given the event offsets and the
\* output list of a particle holds only indices of the particle's own event,
\* even when a parent index points into another event; a non-empty list of
\* distinctChildrenDeep belongs to a particle whose parent, wherever it lies,
\* has another species. distinctParent is given no offsets: when the parent
\* of a particle has another species the result is that parent, in whichever
\* event it lies.
C12_ListKernelsConfined ==
    /\ \A c \in Calls("children") : ~c.raised /\ ListsConfined(c, At(c.before, 1).v)
    /\ \A c \in Calls("distinctChildrenDeep") :
          LET parent == At(c.before, 1).v
              pdg == At(c.before, 0).v
          IN  /\ ~c.raised /\ ListsConfined(c, At(c.before, 2).v)
              /\ \A k \in DOMAIN Top(c.after).v :
                    Top(c.after).v[k] # <<>> =>
                        parent[k] >= 0 /\ pdg[parent[k] + 1] # pdg[k]
    /\ \A c \in Calls("distinctParent") :
          LET parent == At(c.before, 1).v
              pdg == At(c.before, 0).v
          IN  (IsParents(parent) /\ ~c.raised) =>
                  \A i \in DOMAIN parent :
                      (parent[i] >= 0 /\ pdg[parent[i] + 1] # pdg[i]) =>
                          Top(c.after).v[i] = parent[i]

\* children ran on two events with a parent index that points from one event
\* into the other
C12_Witness ==
    \E c \in Calls("children") :
        LET offs == At(c.before, 1).v
            parent == At(c.before, 0).v
        IN  /\ ~c.raised /\ Len(offs) = 3
            /\ \E k \in DOMAIN parent :
                  parent[k] >= 0 /\ ~SameEvent(offs, k - 1, parent[k])

\* the relay ancestors of lineage start i among the particles i..j: i itself
\* and every later particle of i's species whose parent is an earlier relay
\* ancestor
RECURSIVE RelayUpTo(_, _, _, _)
RelayUpTo(parent, pdg, i, j) ==
    IF j <= i THEN {i}
    ELSE LET R == RelayUpTo(parent, pdg, i, j - 1)
         IN  IF parent[j + 1] \in R /\ pdg[j + 1] = pdg[i + 1] THEN R \cup {j} ELSE R

\* the children of relay ancestors of i, in [i, stop), of another species
Emitted(parent, pdg, i, stop) ==
    {j \in i..(stop - 1) :
        /\ parent[j + 1] \in RelayUpTo(parent, pdg, i, j - 1)
        /\ pdg[j + 1] # pdg[i + 1]}

\* relay ancestor r has no child among the particles after it in the event
Childless(parent, r, stop) == \A j \in (r + 1)..(stop - 1) : parent[j + 1] # r

IsLineageStart(parent, pdg, i) ==
    parent[i + 1] >= 0 /\ pdg[parent[i + 1] + 1] # pdg[i + 1]

\* the output of distinctChildrenDeep for particle i of an event that ends at
\* stop, when L is the set of relay ancestors that are appended as leaves
Composition(parent, pdg, i, L) ==
    IF IsLineageStart(parent, pdg, i)
    THEN Ascending(Emitted(parent, pdg, i, L.stop)) \o Ascending(L.leaves)
    ELSE <<>>

\* C13 as stated: for a lineage start i the output is the children of relay
\* ancestors that have another species, in increasing order, followed by
\* every relay ancestor without children, i itself included when i has no
\* children; every other particle gets the empty list.
C13_LeavesIncludeStart ==
    \A c \in Calls("distinctChildrenDeep") :
        LET offs == At(c.before, 2).v
            parent == At(c.before, 1).v
            pdg == At(c.before, 0).v
            out == Top(c.after).v
        IN  /\ ~c.raised
            /\ \A e \in 1..(Len(offs) - 1) : \A i \in offs[e]..(offs[e + 1] - 1) :
                  LET stop == offs[e + 1]
                      leaves == {r \in RelayUpTo(parent, pdg, i, stop - 1) :
                                    Childless(parent, r, stop)}
                  IN  out[i + 1] =
                          Composition(parent, pdg, i, [stop |-> stop, leaves |-> leaves])

\* C13: for a lineage start i the relay ancestors start as {i}; every child,
\* at a later position of the event, of a relay ancestor is emitted once in
\* increasing order when its species differs from i's and becomes a relay
\* ancestor when it has i's species; after the scan every relay ancestor
\* other than i that has no child at a later position of the event is
\* appended, in increasing order. i itself is never appended: a lineage start
\* without children gets the empty list, as does every particle that is not a
\* lineage start.
C13_LeavesExcludeStart ==
    \A c \in Calls("distinctChildrenDeep") :
        LET offs == At(c.before, 2).v
            parent == At(c.before, 1).v
            pdg == At(c.before, 0).v
            out == Top(c.after).v
        IN  /\ ~c.raised
            /\ \A e \in 1..(Len(offs) - 1) : \A i \in offs[e]..(offs[e + 1] - 1) :
                  LET stop == offs[e + 1]
                      leaves == {r \in RelayUpTo(parent, pdg, i, stop - 1) \ {i} :
                                    Childless(parent, r, stop)}
                  IN  out[i + 1] =
                          Composition(parent, pdg, i, [stop |-> stop, leaves |-> leaves])

\* a lineage start with a child of another species and a childless relay
\* ancestor: the child comes first, the relay ancestor after it
C13_Witness ==
    \E c \in Calls("distinctChildrenDeep") :
        /\ At(c.before, 2).v = <<0, 4>>
        /\ At(c.before, 1).v = <<-1, 0, 1, 1>>
        /\ At(c.before, 0).v = <<13, 11, 11, 13>>
        /\ ~c.raised
        /\ Top(c.after).v[2] = <<3, 2>>

\* C14 as stated: after a form function returns, every operand form, with
\* all nested descriptors and their form_key fields, is equal to what it was
\* before the call.
C14_FormOperandsUnchanged ==
    formcall.op # "" => formcall.after = formcall.args

\* the walk of particle i goes through particles of i's species to a parent
\* index at or past the end of the arrays
WalkReachesBeyond(parent, pdg, i) ==
    /\ parent[i + 1] >= 0
    /\ \E k \in 0..Len(parent) :
          /\ Ancestor(parent, parent[i + 1], k) >= Len(pdg)
          /\ \A j \in 0..(k - 1) :
                LET a == Ancestor(parent, parent[i + 1], j)
                IN  a >= 0 /\ a < Len(pdg) /\ pdg[a + 1] = pdg[i + 1]

\* C15 as stated: whenever the walk of some particle reaches a parent index
\* p >= len(species), distinctParent raises the bounds error, before reading
\* species[p] or parent[p], and produces no output.
C15_BeyondRaisesBoundsError ==
    \A c \in Calls("distinctParent") :
        LET parent == At(c.before, 1).v
            pdg == At(c.before, 0).v
        IN  (\E i \in 0..(Len(pdg) - 1) : WalkReachesBeyond(parent, pdg, i)) =>
                /\ c.raised /\ c.pushed = 0
                /\ c.error = "RuntimeError: parent index beyond length of array!"

\* the operands a list-building kernel was called with are well formed
WellFormed(offs, parent) == IsOffsetsFor(offs, Len(parent)) /\ IsParents(parent)

\* the call raised none of the bounds errors, wrote one list per particle and
\* wrote every particle index into the content at most once
WithinBuffers(c, n) ==
    LET out == Top(c.after).v
        flat == Concat(out)
    IN  /\ ~c.raised /\ c.error = ""
        /\ Len(out) = n
        /\ Len(flat) <= n
        /\ \A a \in DOMAIN flat : \A b \in DOMAIN flat : a # b => flat[a] # flat[b]

\* C16: for offsets that are non-decreasing, start at 0 and end at
\* len(parents), and parents with entries in -1..len(parents)-1, neither
\* children nor distinctChildrenDeep raises a 'went out of bounds' error:
\* every particle index is written to the content at most once, so at most
\* len(parents) entries are emitted, and one list per particle is written.
C16_NoBoundsError ==
    /\ \A c \in Calls("children") :
          WellFormed(At(c.before, 1).v, At(c.before, 0).v) =>
              WithinBuffers(c, Len(At(c.before, 0).v))
    /\ \A c \in Calls("distinctChildrenDeep") :
          WellFormed(At(c.before, 2).v, At(c.before, 1).v) =>
              WithinBuffers(c, Len(At(c.before, 1).v))

\* distinctChildrenDeep ran on well-formed operands and emitted both a child
\* of another species and a childless relay ancestor
C16_Witness ==
    \E c \in Calls("distinctChildrenDeep") :
        /\ WellFormed(At(c.before, 2).v, At(c.before, 1).v)
        /\ Len(At(c.before, 1).v) = 4
        /\ Len(Concat(Top(c.after).v)) >= 2

\* C17 as stated: for parents with entries in -1..n-1 and species of length
\* n, every walk of distinctParent ends and the call returns an output of
\* length n, also when the parent links form a cycle among particles of one
\* species.
C17_WalkTerminates ==
    \A c \in Calls("distinctParent") :
        LET parent == At(c.before, 1).v
            pdg == At(c.before, 0).v
        IN  IsParents(parent) =>
                /\ c.error # "diverges"
                /\ ~c.raised /\ Len(Top(c.after).v) = Len(pdg)

\* the descriptor k levels below the top of a form, <<>> when there is none
RECURSIVE Level(_, _)
Level(form, k) ==
    IF k = 0 THEN form
    ELSE IF HasKey(form, "content") THEN Level(form["content"], k - 1)
    ELSE <<>>

\* two results carry the same key at some nesting level
SharesKey(r1, r2) ==
    \E k \in 0..3 :
        LET f1 == Level(r1.out.v, k)
            f2 == Level(r2.out.v, k)
        IN  /\ f1 # <<>> /\ f2 # <<>>
            /\ HasKey(f1, "form_key") /\ HasKey(f2, "form_key")
            /\ f1["form_key"] = f2["form_key"]

\* the results of the three range-mapping form operations for one triple of
\* operand forms
BeginEndResults(a) ==
    <<begin_end_mapping_form_out(a[1], a[2], a[3]),
      begin_end_mapping_nested_target_form_out(a[1], a[2], a[3]),
      begin_end_mapping_with_xyzrecord_form_out(a[1], a[2], a[3])>>

\* C18 as stated: for fixed operand forms two different form operations never
\* give their results the same form_key at the same nesting level; the three
\* range-mapping form operations applied to the same (begin, end, target)
\* forms produce pairwise different keys.
C18_BeginEndKeysDistinct ==
    (formcall.op \in {"begin_end_mapping", "begin_end_mapping_nested_target",
                      "begin_end_mapping_with_xyzrecord"} /\ formcall.r.err = "") =>
        LET rs == BeginEndResults(formcall.args)
        IN  \A m \in 1..3 : \A n \in 1..3 :
                (m < n /\ rs[m].err = "" /\ rs[n].err = "") => ~SharesKey(rs[m], rs[n])

====
